---- MODULE Spec2Model ----
(***************************************************************************)
(* Model of nominatim/server/sanic/server.py: the sanic front-end of the   *)
(* Nominatim API.  One application object holds the formatter registry;    *)
(* every request runs the on_request hook extract_format and then, unless  *)
(* the hook answered, the handler of the /status route.                    *)
(*                                                                         *)
(* The formatter module (nominatim.result_formatter.v1), the StatusResult  *)
(* type and the backend NominatimAPIAsync are used through their           *)
(* interfaces only; what the model assumes of them is taken from the       *)
(* design document and marked where it is defined.                         *)
(***************************************************************************)
EXTENDS Integers, Sequences, FiniteSets, TLC

(* ------------------------------ bounds -------------------------------- *)

\* Number of requests the server receives in one behaviour.
MaxRequests == 2

\* Largest value of StatusResult.status the backend returns (0 is healthy).
MaxStatusCode == 1

Requests == 1..MaxRequests

(* --------------------------- program constants ------------------------ *)

\* The result type of the only route, and the only type get_application registers.
StatusResult == "StatusResult"

\* server.py:60  ctx_result_type / ctx_default_format of the /status route.
RouteResultType == StatusResult
RouteDefaultFormat == "text"

\* server.py:81  for rtype in (StatusResult, )
RegisteredTypesEmpty == {}
RegisteredTypes == {StatusResult}

\* server.py:21-24  CONTENT_TYPE
CONTENT_TYPE == [text |-> "text/plain; charset=utf-8", xml |-> "text/xml; charset=utf-8"]

\* server.py:38-39  CONTENT_TYPE.get(format, 'application/json')
ContentTypeOfNoXml(format) == IF format = "text" THEN CONTENT_TYPE[format] ELSE "application/json"
ContentTypeOf(format) == IF format \in DOMAIN CONTENT_TYPE THEN CONTENT_TYPE[format] ELSE "application/json"

\* sanic.response.text: the status and content type it gives when none is passed.
DefaultStatus == 200
TextContentType == "text/plain; charset=utf-8"

(* ------------------- values of the inputs (bounded) ------------------- *)

\* Values the 'format' query parameter takes.
QueryFormats == {"text", "json", "xml", "csv"}

\* request.args: a mapping holding the 'format' key or not.
NoArgs == [k \in {} |-> ""]
ArgsSet == {NoArgs} \cup {[k \in {"format"} |-> f] : f \in QueryFormats}

\* The lists of formats a formatter of StatusResult may declare, in its order.
FormatLists == {<<"text", "json">>, <<"json", "text">>, <<"text", "json", "xml">>, <<"xml", "json">>}

\* What the backend's status() returns.
Results == [status : 0..MaxStatusCode]

NoResult == [status |-> -1]
NoFormatter == [rtype |-> "", formats |-> <<>>]
NoCtx == [formatter |-> NoFormatter, format |-> ""]
NoResponse == [status |-> 0, body |-> "", content_type |-> ""]

(* ------------------------------- state -------------------------------- *)

VARIABLES
    appState,    \* "boot" before get_application, then "serving" or "failed"
    formatting,  \* the formatter module: result type -> declared format list
    formatters,  \* app.ctx.formatters
    pc,          \* per request: where its task stands
    args,        \* per request: request.args
    ctx,         \* per request: request.ctx (formatter, format)
    result,      \* per request: the handler's local 'result'
    response,    \* per request: the handler's local 'response'
    sent,        \* per request: the response handed to the transport
    calls,       \* per request: how often api.status() was called for it
    trace        \* per request: the events of its pipeline, in order

vars == <<appState, formatting, formatters, pc, args, ctx, result, response, sent, calls, trace>>

(* ------------------- formatter interface (collaborator) --------------- *)

\* formatting.create(rtype): the formatter of a result type.
create(rtype) == [rtype |-> rtype, formats |-> formatting[rtype]]

\* formatter.supports_format(format)
supports_format(formatter, format) == \E i \in 1..Len(formatter.formats) : formatter.formats[i] = format

\* formatter.list_formats()
list_formats(formatter) == formatter.formats

\* formatter.format(result, format): the body, which names the format and the result.
format_result(formatter, res, format) == format \o ":" \o formatter.rtype \o ":" \o ToString(res.status)

(* ------------------------------ helpers ------------------------------- *)

\* sep.join(seq)
RECURSIVE Join(_, _)
Join(seq, sep) ==
    IF Len(seq) = 0 THEN ""
    ELSE IF Len(seq) = 1 THEN seq[1]
    ELSE seq[1] \o sep \o Join(Tail(seq), sep)

\* request.args.get(key, default)
ArgsGet(a, key, default) == IF key \in DOMAIN a THEN a[key] ELSE default

\* server.py:26-29  usage_error(msg)
usage_error_200(msg) == [status |-> DefaultStatus, body |-> msg, content_type |-> TextContentType]
usage_error(msg) == [status |-> 400, body |-> msg, content_type |-> TextContentType]

\* server.py:54-55  the message of the usage error
UsageMessage(formatter) == "Parameter 'format' must be one of: " \o Join(list_formats(formatter), ", ")

\* server.py:32-39  api_response(request, result), given request.ctx
api_response(c, res) ==
    [status |-> DefaultStatus,
     body |-> format_result(c.formatter, res, c.format),
     content_type |-> ContentTypeOf(c.format)]

\* server.py:67  the condition of the status override
StatusOverrideAnyFormat(format, res) == res.status # 0
StatusOverride(format, res) == format = "text" /\ res.status # 0

\* server.py:52  the format the negotiator resolves
ResolvedFormatIgnoringArgs(a) == RouteDefaultFormat
ResolvedFormatJsonDefault(a) == ArgsGet(a, "format", "json")
ResolvedFormat(a) == ArgsGet(a, "format", RouteDefaultFormat)

\* server.py:50,52  the assignment to request.ctx of request r
CtxWriteShared(r, c) == [q \in Requests |-> c]
CtxWrite(r, c) == [ctx EXCEPT ![r] = c]

\* server.py:50  app.ctx.formatters after the lookup formatters[rtype]
RegistryAfterPop(rtype) == [t \in DOMAIN formatters \ {rtype} |-> formatters[t]]
RegistryAfterLookup(rtype) == formatters

\* The events of request r's pipeline, appended in the order the code runs them.
Log(r, events) == [trace EXCEPT ![r] = @ \o events]

(* ------------------------------ actions ------------------------------- *)

Init ==
    /\ appState = "boot"
    /\ formatting \in UNION {[T -> FormatLists] : T \in SUBSET {StatusResult}}
    /\ formatters = [t \in {} |-> NoFormatter]
    /\ pc = [r \in Requests |-> "idle"]
    /\ args = [r \in Requests |-> NoArgs]
    /\ ctx = [r \in Requests |-> NoCtx]
    /\ result = [r \in Requests |-> NoResult]
    /\ response = [r \in Requests |-> NoResponse]
    /\ sent = [r \in Requests |-> NoResponse]
    /\ calls = [r \in Requests |-> 0]
    /\ trace = [r \in Requests |-> <<>>]

\* server.py:73-86  get_application: builds the registry; create() raising ends it.
GetApplication ==
    /\ appState = "boot"
    /\ IF RegisteredTypes \subseteq DOMAIN formatting
       THEN /\ formatters' = [t \in RegisteredTypes |-> create(t)]
            /\ appState' = "serving"
       ELSE /\ formatters' = formatters
            /\ appState' = "failed"
    /\ UNCHANGED <<formatting, pc, args, ctx, result, response, sent, calls, trace>>

\* The transport routes a new request to /status with a fresh context.
Receive(r) ==
    /\ appState = "serving"
    /\ pc[r] = "idle"
    /\ \A q \in Requests : q < r => pc[q] # "idle"
    /\ \E a \in ArgsSet : args' = [args EXCEPT ![r] = a]
    /\ pc' = [pc EXCEPT ![r] = "received"]
    /\ UNCHANGED <<appState, formatting, formatters, ctx, result, response, sent, calls, trace>>

\* extract_format without the 'return' of line 54: the usage error is built and dropped.
ExtractFormatNoReturn(r) ==
    /\ pc[r] = "received"
    /\ RouteResultType \in DOMAIN formatters
    /\ LET c == [formatter |-> formatters[RouteResultType], format |-> ResolvedFormat(args[r])]
       IN ctx' = CtxWrite(r, c)
    /\ pc' = [pc EXCEPT ![r] = "handler"]
    /\ trace' = Log(r, <<"negotiated">>)
    /\ UNCHANGED <<appState, formatting, formatters, args, result, response, sent, calls>>

\* server.py:42-57  extract_format
ExtractFormat(r) ==
    /\ pc[r] = "received"
    /\ IF RouteResultType \notin DOMAIN formatters
       THEN \* line 50 raises KeyError
            /\ pc' = [pc EXCEPT ![r] = "error"]
            /\ trace' = Log(r, <<"lookup_failed">>)
            /\ UNCHANGED <<ctx, sent>>
       ELSE LET c == [formatter |-> formatters[RouteResultType], format |-> ResolvedFormat(args[r])]
            IN /\ ctx' = CtxWrite(r, c)
               /\ IF ~supports_format(c.formatter, c.format)
                  THEN /\ sent' = [sent EXCEPT ![r] = usage_error(UsageMessage(c.formatter))]
                       /\ pc' = [pc EXCEPT ![r] = "done"]
                       /\ trace' = Log(r, <<"rejected", "respond">>)
                  ELSE /\ sent' = sent
                       /\ pc' = [pc EXCEPT ![r] = "handler"]
                       /\ trace' = Log(r, <<"negotiated">>)
    /\ formatters' = RegistryAfterLookup(RouteResultType)
    /\ UNCHANGED <<appState, formatting, args, result, response, calls>>

\* server.py:61-64  status: the handler starts and awaits api.status()
StatusCallUngated(r) ==
    /\ pc[r] \in {"received", "handler"}
    /\ pc' = [pc EXCEPT ![r] = "awaiting"]
    /\ calls' = [calls EXCEPT ![r] = @ + 1]
    /\ trace' = Log(r, <<"handler", "backend_call">>)
    /\ UNCHANGED <<appState, formatting, formatters, args, ctx, result, response, sent>>
StatusCallTwice(r) ==
    /\ pc[r] = "handler"
    /\ pc' = [pc EXCEPT ![r] = "awaiting"]
    /\ calls' = [calls EXCEPT ![r] = @ + 2]
    /\ trace' = Log(r, <<"handler", "backend_call">>)
    /\ UNCHANGED <<appState, formatting, formatters, args, ctx, result, response, sent>>
StatusCall(r) ==
    /\ pc[r] = "handler"
    /\ pc' = [pc EXCEPT ![r] = "awaiting"]
    /\ calls' = [calls EXCEPT ![r] = @ + 1]
    /\ trace' = Log(r, <<"handler", "backend_call">>)
    /\ UNCHANGED <<appState, formatting, formatters, args, ctx, result, response, sent>>

\* server.py:64-65  the backend returns; api_response renders the result
StatusRender(r) ==
    /\ pc[r] = "awaiting"
    /\ \E res \in Results :
          /\ result' = [result EXCEPT ![r] = res]
          /\ response' = [response EXCEPT ![r] = api_response(ctx[r], res)]
    /\ pc' = [pc EXCEPT ![r] = "policy"]
    /\ trace' = Log(r, <<"backend_return", "render">>)
    /\ UNCHANGED <<appState, formatting, formatters, args, ctx, sent, calls>>

\* The override written as a new response built with status 500 and a fixed body.
StatusPolicyReplacing(r) ==
    /\ pc[r] = "policy"
    /\ response' = [response EXCEPT ![r] =
                       IF StatusOverride(ctx[r].format, result[r])
                       THEN [status |-> 500, body |-> "ERROR", content_type |-> TextContentType]
                       ELSE @]
    /\ pc' = [pc EXCEPT ![r] = "returning"]
    /\ trace' = Log(r, <<"policy">>)
    /\ UNCHANGED <<appState, formatting, formatters, args, ctx, result, sent, calls>>

\* server.py:67-68  the status override
StatusPolicy(r) ==
    /\ pc[r] = "policy"
    /\ response' = [response EXCEPT ![r].status =
                       IF StatusOverride(ctx[r].format, result[r]) THEN 500 ELSE @]
    /\ pc' = [pc EXCEPT ![r] = "returning"]
    /\ trace' = Log(r, <<"policy">>)
    /\ UNCHANGED <<appState, formatting, formatters, args, ctx, result, sent, calls>>

\* server.py:70  return response
StatusReturn(r) ==
    /\ pc[r] = "returning"
    /\ sent' = [sent EXCEPT ![r] = response[r]]
    /\ pc' = [pc EXCEPT ![r] = "done"]
    /\ trace' = Log(r, <<"respond">>)
    /\ UNCHANGED <<appState, formatting, formatters, args, ctx, result, response, calls>>

\* The handler catching the backend's exception and answering with a 500 of its own.
BackendFailAnswered(r) ==
    /\ pc[r] = "awaiting"
    /\ pc' = [pc EXCEPT ![r] = "error"]
    /\ sent' = [sent EXCEPT ![r] = [status |-> 500, body |-> "backend failed", content_type |-> TextContentType]]
    /\ trace' = Log(r, <<"backend_failed">>)
    /\ UNCHANGED <<appState, formatting, formatters, args, ctx, result, response, calls>>

\* server.py:64  the awaited api.status() raises: the exception leaves the handler
BackendFail(r) ==
    /\ pc[r] = "awaiting"
    /\ pc' = [pc EXCEPT ![r] = "error"]
    /\ trace' = Log(r, <<"backend_failed">>)
    /\ UNCHANGED <<appState, formatting, formatters, args, ctx, result, response, sent, calls>>

\* server.py:36  formatter.format raises: the exception leaves the handler
RenderFail(r) ==
    /\ pc[r] = "awaiting"
    /\ \E res \in Results : result' = [result EXCEPT ![r] = res]
    /\ pc' = [pc EXCEPT ![r] = "error"]
    /\ trace' = Log(r, <<"backend_return", "render_failed">>)
    /\ UNCHANGED <<appState, formatting, formatters, args, ctx, response, sent, calls>>

\* The handler catching the cancellation and returning an empty 200 response.
CancelAnswered(r) ==
    /\ pc[r] = "awaiting"
    /\ pc' = [pc EXCEPT ![r] = "cancelled"]
    /\ sent' = [sent EXCEPT ![r] = [status |-> DefaultStatus, body |-> "", content_type |-> TextContentType]]
    /\ trace' = Log(r, <<"cancelled">>)
    /\ UNCHANGED <<appState, formatting, formatters, args, ctx, result, response, calls>>

\* server.py:64  the task is cancelled while suspended in the await
Cancel(r) ==
    /\ pc[r] = "awaiting"
    /\ pc' = [pc EXCEPT ![r] = "cancelled"]
    /\ trace' = Log(r, <<"cancelled">>)
    /\ UNCHANGED <<appState, formatting, formatters, args, ctx, result, response, sent, calls>>

Next ==
    \/ GetApplication
    \/ \E r \in Requests : Receive(r)
    \/ \E r \in Requests : ExtractFormat(r)
    \/ \E r \in Requests : StatusCall(r)
    \/ \E r \in Requests : StatusRender(r)
    \/ \E r \in Requests : StatusPolicy(r)
    \/ \E r \in Requests : StatusReturn(r)
    \/ \E r \in Requests : BackendFail(r)
    \/ \E r \in Requests : RenderFail(r)
    \/ \E r \in Requests : Cancel(r)

Spec == Init /\ [][Next]_vars

\* The event loop runs every task that can run; an awaited backend call ends
\* (it returns, raises, or the task is cancelled).
Step(r) ==
    \/ ExtractFormat(r) \/ StatusCall(r) \/ StatusRender(r) \/ StatusPolicy(r) \/ StatusReturn(r)
    \/ BackendFail(r) \/ RenderFail(r) \/ Cancel(r)

FairSpec == Spec /\ \A r \in Requests : WF_vars(Step(r))

(* ---------------------- vocabulary of the properties ------------------ *)

\* The format request r asks for: its 'format' parameter, or "text" on /status.
RequestedFormat(r) == IF "format" \in DOMAIN args[r] THEN args[r]["format"] ELSE "text"

\* The formats the formatter of StatusResult declares.
DeclaredFormats == formatting[StatusResult]
Declared(f) == \E i \in DOMAIN DeclaredFormats : DeclaredFormats[i] = f

\* The negotiator has run to its end for request r (accepting or rejecting).
Negotiated(r) == Len(trace[r]) > 0 /\ trace[r][1] \in {"negotiated", "rejected"}

\* The handler of request r has rendered, applied its policy, returned.
Rendered(r) == pc[r] \in {"policy", "returning"} \/ (pc[r] = "done" /\ calls[r] > 0)
PolicyApplied(r) == pc[r] = "returning" \/ (pc[r] = "done" /\ calls[r] > 0)
Answered(r) == pc[r] = "done" /\ calls[r] > 0

Occurs(t, e) == \E i \in 1..Len(t) : t[i] = e
Before(t, a, b) == \A j \in 1..Len(t) : t[j] = b => \E i \in 1..(j - 1) : t[i] = a
AtMostOnce(t) == \A i, j \in 1..Len(t) : t[i] = t[j] => i = j

\* The usage message for each declared list, written out.
ExpectedUsageBody(formats) ==
    CASE formats = <<"text", "json">> -> "Parameter 'format' must be one of: text, json"
      [] formats = <<"json", "text">> -> "Parameter 'format' must be one of: json, text"
      [] formats = <<"text", "json", "xml">> -> "Parameter 'format' must be one of: text, json, xml"
      [] formats = <<"xml", "json">> -> "Parameter 'format' must be one of: xml, json"

\* The content type of each format, written out.
ExpectedContentType(f) ==
    CASE f = "text" -> "text/plain; charset=utf-8"
      [] f = "xml" -> "text/xml; charset=utf-8"
      [] OTHER -> "application/json"

(* ------------------------------ properties ---------------------------- *)

\* C1: a request whose resolved format (the parameter, or the route default)
\* the formatter does not support is answered with status 400 and the body
\* "Parameter 'format' must be one of: " plus the declared formats joined by
\* ", " in declared order; its handler never starts and the backend is never
\* called for it.
C1_UnsupportedFormatRejected ==
    \A r \in Requests :
        (pc[r] \notin {"idle", "received"} /\ ~Declared(RequestedFormat(r))) =>
            /\ pc[r] = "done"
            /\ sent[r].status = 400
            /\ sent[r].body = ExpectedUsageBody(DeclaredFormats)
            /\ calls[r] = 0
            /\ ~Occurs(trace[r], "handler")
            /\ ~Occurs(trace[r], "backend_call")
            /\ result[r] = NoResult
            /\ response[r] = NoResponse

C1_Witness ==
    \E r, q \in Requests :
        /\ pc[r] = "done" /\ RequestedFormat(r) = "csv" /\ sent[r].status = 400
        /\ DeclaredFormats = <<"json", "text">>
        /\ pc[q] = "done" /\ calls[q] = 1 /\ result[q].status = 1

\* C2: a response the status handler returns after the backend gave a result
\* has status 500 exactly when the negotiated format is "text" and the
\* result's status is not healthy (non-zero), and status 200 otherwise.
C2_StatusCode ==
    \A r \in Requests :
        Answered(r) =>
            /\ sent[r].status = 500 <=> (RequestedFormat(r) = "text" /\ result[r].status # 0)
            /\ sent[r].status \in {200, 500}

C2_Witness ==
    \E r, q \in Requests :
        /\ Answered(r) /\ RequestedFormat(r) = "text" /\ result[r].status # 0 /\ sent[r].status = 500
        /\ Answered(q) /\ RequestedFormat(q) = "json" /\ result[q].status # 0 /\ sent[q].status = 200

\* C3: for a request without a 'format' parameter the negotiator attaches the
\* route's default format "text" to the request context, and the handler
\* renders, picks the content type and applies the status policy with "text".
C3_DefaultFormat ==
    \A r \in Requests :
        ("format" \notin DOMAIN args[r] /\ Negotiated(r)) =>
            /\ ctx[r].format = "text"
            /\ Rendered(r) =>
                  /\ response[r].body = "text:StatusResult:" \o ToString(result[r].status)
                  /\ response[r].content_type = "text/plain; charset=utf-8"
            /\ PolicyApplied(r) => (response[r].status = IF result[r].status # 0 THEN 500 ELSE 200)

C3_Witness ==
    \E r \in Requests :
        /\ "format" \notin DOMAIN args[r]
        /\ Answered(r) /\ result[r].status # 0
        /\ sent[r].status = 500 /\ sent[r].content_type = "text/plain; charset=utf-8"

\* C4: for a request with format=X, X declared by the formatter, the negotiator
\* returns no response, the request stands before its handler, which can start,
\* and the request context holds X and the formatter registered for the
\* route's result type.
C4_SupportedFormatProceeds ==
    \A r \in Requests :
        ("format" \in DOMAIN args[r] /\ Declared(args[r]["format"]) /\ pc[r] \notin {"idle", "received"}) =>
            /\ trace[r][1] = "negotiated"
            /\ ctx[r].format = args[r]["format"]
            /\ ctx[r].formatter = formatters[RouteResultType]
            /\ ctx[r].formatter = [rtype |-> StatusResult, formats |-> DeclaredFormats]
            /\ pc[r] = "handler" => (sent[r] = NoResponse /\ calls[r] = 0 /\ ENABLED StatusCall(r))
            /\ sent[r].status # 400

C4_Witness ==
    \E r \in Requests :
        /\ pc[r] = "handler" /\ "format" \in DOMAIN args[r] /\ args[r]["format"] = "xml"
        /\ ctx[r].format = "xml"

\* C5: the content type of a rendered response is fixed by the negotiated
\* format alone: "text" gives text/plain; charset=utf-8, "xml" gives
\* text/xml; charset=utf-8, every other format gives application/json,
\* for any result.
C5_ContentType ==
    \A r \in Requests :
        /\ Rendered(r) => response[r].content_type = ExpectedContentType(RequestedFormat(r))
        /\ Answered(r) => sent[r].content_type = ExpectedContentType(RequestedFormat(r))

C5_Witness ==
    \E r, q \in Requests :
        /\ Answered(r) /\ RequestedFormat(r) = "xml" /\ sent[r].content_type = "text/xml; charset=utf-8"
        /\ Answered(q) /\ RequestedFormat(q) = "json" /\ sent[q].content_type = "application/json"
        /\ result[r].status # result[q].status

\* C6: once the application is constructed, the default format of the route is
\* one the registered formatter supports; with a formatter that lacks it
\* construction fails and no request is received.
C6_DefaultFormatSupported ==
    /\ appState = "serving" => \A t \in DOMAIN formatters : supports_format(formatters[t], RouteDefaultFormat)
    /\ \A r \in Requests : pc[r] # "idle" => Declared(RouteDefaultFormat)

C8_PipelineOrder ==
    \A r \in Requests :
        LET t == trace[r] IN
        /\ AtMostOnce(t)
        /\ Before(t, "negotiated", "handler")
        /\ Before(t, "handler", "backend_call")
        /\ Before(t, "backend_call", "backend_return")
        /\ Before(t, "backend_return", "render")
        /\ Before(t, "render", "policy")
        /\ Occurs(t, "rejected") => t = <<"rejected", "respond">>
        /\ ~Occurs(t, "rejected") => Before(t, "policy", "respond")
        /\ Occurs(t, "respond") => t[Len(t)] = "respond"
        /\ pc[r] \notin {"idle", "received"} => Len(t) > 0
        /\ (sent[r] # NoResponse) <=> Occurs(t, "respond")

C8_Witness ==
    \E r, q \in Requests :
        /\ trace[r] = <<"negotiated", "handler", "backend_call", "backend_return", "render", "policy", "respond">>
        /\ pc[q] = "awaiting" /\ q < r

\* C9: the context of a request is written by its own negotiation only, and
\* the response of a request is given by its own format and its own backend
\* result, whatever other requests are in flight.
C9_RequestIsolation ==
    \A r \in Requests :
        /\ ~Negotiated(r) => ctx[r] = NoCtx
        /\ Negotiated(r) =>
              ctx[r] = [formatter |-> [rtype |-> StatusResult, formats |-> DeclaredFormats],
                        format |-> RequestedFormat(r)]
        /\ Answered(r) =>
              sent[r] = [status |-> IF RequestedFormat(r) = "text" /\ result[r].status # 0 THEN 500 ELSE 200,
                         body |-> RequestedFormat(r) \o ":StatusResult:" \o ToString(result[r].status),
                         content_type |-> ExpectedContentType(RequestedFormat(r))]

C9_Witness ==
    \E r, q \in Requests :
        /\ r < q
        /\ pc[r] = "awaiting" /\ ctx[r].format = "text"
        /\ Answered(q) /\ ctx[q].format = "json" /\ result[q].status # 0

\* C10: while the application serves, no step changes the formatter registry
\* (nor ends serving).
C10_RegistryFrozen ==
    [][appState = "serving" => (formatters' = formatters /\ appState' = "serving")]_vars

C10_Witness ==
    \E r, q \in Requests :
        /\ Answered(r) /\ pc[q] = "done" /\ sent[q].status = 400
        /\ formatters = [t \in {StatusResult} |-> [rtype |-> t, formats |-> DeclaredFormats]]

\* C11: the status override changes the status only: the step that applies the
\* policy keeps the body and the content type the renderer produced, sets 500
\* for "text" with an unhealthy result and keeps 200 otherwise, and the
\* response handed to the transport is that response.
C11_OverrideKeepsBody ==
    [][\A r \in Requests :
          /\ (pc[r] = "policy" /\ pc'[r] # "policy") =>
                /\ response'[r].body = response[r].body
                /\ response'[r].content_type = response[r].content_type
                /\ response[r].status = 200
                /\ response'[r].status =
                      IF RequestedFormat(r) = "text" /\ result[r].status # 0 THEN 500 ELSE 200
          /\ (pc[r] = "returning" /\ pc'[r] # "returning") => sent'[r] = response[r]]_vars

C11_Witness ==
    \E r \in Requests :
        /\ Answered(r) /\ RequestedFormat(r) = "text" /\ result[r].status # 0
        /\ sent[r].status = 500
        /\ sent[r].body = "text:StatusResult:" \o ToString(result[r].status)
        /\ sent[r].content_type = "text/plain; charset=utf-8"

\* C12: while the handler, the renderer or the status policy runs for a
\* request, and after, the request's context holds a formatter and a format
\* that formatter declares; what is rendered follows the context's format.
HandlerRunning(r) == pc[r] \in {"handler", "awaiting", "policy", "returning"} \/ calls[r] > 0

C12_ContextValidInHandler ==
    \A r \in Requests :
        HandlerRunning(r) =>
            /\ ctx[r].formatter # NoFormatter
            /\ ctx[r].format # ""
            /\ \E i \in DOMAIN ctx[r].formatter.formats : ctx[r].formatter.formats[i] = ctx[r].format
            /\ Rendered(r) => response[r].content_type = ExpectedContentType(ctx[r].format)
            /\ sent[r].status # 400

C12_Witness ==
    \E r, q \in Requests :
        /\ pc[r] = "policy" /\ ctx[r].format = "json"
        /\ pc[q] = "done" /\ sent[q].status = 400

\* C13: a request whose backend call or whose rendering failed gets no response
\* from the handler, had its backend called once, and no policy step; every
\* response handed to the transport is the 400 usage error of a rejected
\* request or the rendered result of a handler that returned.
Failed(r) == Occurs(trace[r], "backend_failed") \/ Occurs(trace[r], "render_failed")

C13_FailuresPropagate ==
    \A r \in Requests :
        /\ Failed(r) =>
              /\ pc[r] = "error"
              /\ sent[r] = NoResponse
              /\ response[r] = NoResponse
              /\ calls[r] = 1
              /\ ~Occurs(trace[r], "policy")
              /\ ~Occurs(trace[r], "respond")
              /\ trace[r][Len(trace[r])] \in {"backend_failed", "render_failed"}
        /\ sent[r] # NoResponse =>
              \/ sent[r].status = 400 /\ trace[r] = <<"rejected", "respond">>
              \/ sent[r].status \in {200, 500} /\ Answered(r) /\ ~Failed(r)

C13_Witness ==
    \E r, q \in Requests :
        /\ Occurs(trace[r], "backend_failed") /\ pc[r] = "error"
        /\ Occurs(trace[q], "render_failed") /\ pc[q] = "error"

\* C14: a request cancelled while its handler awaits the backend stays
\* cancelled and never has a response, rendered or handed to the transport;
\* the step that cancels it changes nothing of any other request.
C14_CancelEmitsNothing ==
    [][\A r \in Requests :
          /\ pc[r] = "cancelled" => pc'[r] = "cancelled"
          /\ pc'[r] = "cancelled" =>
                /\ sent'[r] = NoResponse
                /\ response'[r] = NoResponse
                /\ ~Occurs(trace'[r], "respond")
          /\ (pc[r] # "cancelled" /\ pc'[r] = "cancelled") =>
                /\ pc[r] = "awaiting"
                /\ \A q \in Requests \ {r} :
                      /\ pc'[q] = pc[q] /\ sent'[q] = sent[q] /\ response'[q] = response[q]
                      /\ ctx'[q] = ctx[q] /\ result'[q] = result[q] /\ trace'[q] = trace[q]]_vars

C14_Witness ==
    \E r, q \in Requests :
        /\ r < q
        /\ pc[r] = "cancelled" /\ sent[r] = NoResponse
        /\ Answered(q) /\ result[q].status # 0

\* C15 as first stated: the backend is called at most once per request, and a
\* request whose backend call returned and which was not cancelled ends with
\* a response.
Ended(r) == pc[r] \in {"done", "error", "cancelled"}

C15_ReturnedBackendAnswered ==
    \A r \in Requests :
        /\ calls[r] <= 1
        /\ (Ended(r) /\ Occurs(trace[r], "backend_return") /\ ~Occurs(trace[r], "cancelled")) =>
              sent[r] # NoResponse

\* C15: the backend is called at most once per request, once for every request
\* whose handler started and never for a rejected one; no request has two
\* responses, nor a rejection and a handler response; a request that ended
\* has its one response unless its backend call failed, its rendering failed
\* or it was cancelled; and eventually every received request has ended.
C15_Safety ==
    \A r \in Requests :
        /\ calls[r] <= 1
        /\ calls[r] = 1 <=> Occurs(trace[r], "handler")
        /\ Occurs(trace[r], "rejected") => calls[r] = 0
        /\ (Occurs(trace[r], "negotiated") /\ pc[r] # "handler") => calls[r] = 1
        /\ Cardinality({i \in 1..Len(trace[r]) : trace[r][i] = "respond"}) <= 1
        /\ ~(Occurs(trace[r], "rejected") /\ Occurs(trace[r], "policy"))
        /\ sent[r] # NoResponse => sent[r].status \in {200, 400, 500}
        /\ pc[r] = "done" => sent[r] # NoResponse
        /\ pc[r] = "error" => Failed(r)

C15_OnceAndAnswered ==
    /\ []C15_Safety
    /\ <>[](\A r \in Requests : pc[r] = "idle" \/ Ended(r))

C15_Witness ==
    \E r, q \in Requests :
        /\ pc[r] = "done" /\ sent[r].status = 400 /\ calls[r] = 0
        /\ Answered(q) /\ calls[q] = 1 /\ sent[q].status = 500

====
